---- MODULE Spec2Model ----
(***************************************************************************)
(* AI-BOL-POC: one upload request of the Streamlit application (app.py     *)
(* main), the page reconciliation pass in its two implementations          *)
(* (app.py and pdf_processing.py, both named                               *)
(* extract_text_from_pdf_with_image_fallback), the OCR functions of        *)
(* api_services.py, and append_row_to_excel of excel_utils.py.             *)
(*                                                                         *)
(* Text is a sequence of characters.  Everything shown to the user and     *)
(* every call that leaves the process is appended to `log`, in program     *)
(* order.                                                                  *)
(***************************************************************************)
EXTENDS Integers, Sequences, FiniteSets, TLC

(* ------------------------------ bounds --------------------------------- *)

\* Longest document, in pages.
MaxPages == 2

\* Concurrent invocations of append_row_to_excel.
NumWriters == 2

\* Invocations of append_row_to_excel made one after another.
MaxCalls == 3

\* Largest token counter handed to the cost section.
MaxTokens == 3

\* Most entries of container_info in a reply.
MaxContainers == 2

(* ------------------------------- text ---------------------------------- *)

NL == <<"\n">>

\* str.isspace for the characters of the model.
IsSpace(c) == c \in {" ", "\n"}

RECURSIVE LStrip(_)
LStrip(s) == IF s = <<>> THEN s
             ELSE IF IsSpace(Head(s)) THEN LStrip(Tail(s)) ELSE s

RECURSIVE RStrip(_)
RStrip(s) == IF s = <<>> THEN s
             ELSE IF IsSpace(s[Len(s)]) THEN RStrip(SubSeq(s, 1, Len(s) - 1)) ELSE s

\* Python's str.strip().
Strip(s) == RStrip(LStrip(s))

\* A page's embedded text as page.extract_text() returns it; <<>> is None or "".
PageTexts == { <<>>, <<" ">>, <<"a">>, <<" ", "b">> }

\* Mutant (C3): the test without its strip(): `if page_text`.
HasTextUnstripped(page_text) == page_text # <<>>

\* Mutant (C7): text that starts or ends with whitespace counts as no text.
HasTextExact(page_text) == page_text # <<>> /\ Strip(page_text) = page_text

\* `page_text and page_text.strip()`: the page has usable embedded text.
HasText(page_text) == page_text # <<>> /\ Strip(page_text) # <<>>

\* dict.get(k, default) on a dict given as a function.
Get(d, k, default) == IF k \in DOMAIN d THEN d[k] ELSE default

UsageKeys == {"prompt_tokens", "completion_tokens", "total_tokens"}

ZeroUsage == [k \in UsageKeys |-> 0]

Ev(e, p) == [ev |-> e, page |-> p]

(* ------------------------- credentials (secrets) ------------------------ *)

SecretNames == {"api-key-gpt-4o-mini", "api-key-google-vision", "api-key-mistral-ocr"}

\* A secret is set to a usable value, set to the empty string, or not set
\* (st.secrets[...] raises KeyError).
SecretStates == {"present", "empty", "absent"}

\* app.py get_api_key / get_google_vision_api_key: the key (or a falsy value)
\* and what is shown; an empty and an absent secret are both reported.
AppGetKey(secrets, name) ==
    [ok  |-> secrets[name] = "present",
     evs |-> IF secrets[name] = "present" THEN <<>> ELSE <<Ev("error_key", 0)>>]

\* api_services.py get_api_key / get_google_vision_api_key /
\* get_mistral_ocr_api_key: only the KeyError is reported; an empty secret is
\* returned as it is, with no message.
SvcGetKey(secrets, name) ==
    [ok  |-> secrets[name] = "present",
     evs |-> IF secrets[name] = "absent" THEN <<Ev("error_key", 0)>> ELSE <<>>]

(* ----------------------------- OCR backends ----------------------------- *)

\* What an OCR function hands back: its text, its usage dict, whether an
\* exception left it, and what it logged (requests issued, messages shown).
OcrResult(text, usage, raised, evs) ==
    [text |-> text, usage |-> usage, raised |-> raised, evs |-> evs]

NoUsage == [k \in {} |-> 0]

\* Text an OCR backend finds on a page, before the caller strips it.
OcrContents == { <<"x", " ">>, <<"y">> }

\* Replies of Google Cloud Vision: "exc" is any exception inside the try block
\* (requests.post, resp.json(), the indexing), "non200" a reply with another
\* status, "none" a 200 reply without textAnnotations, "ok" one with text.
GcvReplies ==
    [kind : {"exc", "non200", "none"}, content : {<<>>}]
        \cup [kind : {"ok"}, content : OcrContents]

\* A call failed: the request raised or came back with a status other than
\* 200 (or without the id / URL the next request needs).  "ocr_failed" and
\* "extract_failed" mark it in the log; they are not shown to the user.
OcrFailed(n) == <<Ev("ocr_failed", n)>>

\* call_google_vision_ocr; warns tells the two copies apart: app.py's warns
\* when no text was found, api_services.py's does not.
CallGoogleVisionOcr(reply, n, warns) ==
    LET req == <<Ev("gcv_request", n)>> \o
               (IF reply.kind \in {"exc", "non200"} THEN OcrFailed(n) ELSE <<>>) IN
    CASE reply.kind = "exc"    -> OcrResult(<<>>, NoUsage, FALSE, req \o <<Ev("error_ocr", n)>>)
      [] reply.kind = "non200" -> OcrResult(<<>>, NoUsage, FALSE, req \o <<Ev("error_ocr", n)>>)
      [] reply.kind = "none"   -> OcrResult(<<>>, NoUsage, FALSE,
                                            req \o (IF warns THEN <<Ev("warn_ocr", n)>> ELSE <<>>))
      [] OTHER                 -> OcrResult(Strip(reply.content), NoUsage, FALSE, req)

\* The "usage" member of a GPT-4 reply: absent, or the three counters.
UsageReplies == { NoUsage, [k \in UsageKeys |-> IF k = "prompt_tokens" THEN 2
                                                ELSE IF k = "completion_tokens" THEN 1 ELSE 3] }

Gpt4Replies ==
    [kind : {"exc", "non200"}, content : {<<>>}, usage : {NoUsage}]
        \cup [kind : {"ok"}, content : OcrContents, usage : UsageReplies]

\* Mutant (C15): a failed request is sent once more before the error is shown.
CallGpt4ImageApiRetrying(reply, n) ==
    LET req == <<Ev("gpt4_request", n)>> IN
    CASE reply.kind \in {"exc", "non200"} ->
             OcrResult(<<>>, NoUsage, FALSE,
                       req \o OcrFailed(n) \o req \o OcrFailed(n) \o <<Ev("error_ocr", n)>>)
      [] OTHER -> OcrResult(Strip(reply.content), reply.usage, FALSE, req)

\* The usage a GPT-4 reply carried, noted in the log next to the request.
Gpt4Reply(n, usage) == [ev |-> "gpt4_reply", page |-> n, usage |-> usage]

\* call_gpt4_image_api (the same in app.py and api_services.py).
CallGpt4ImageApi(reply, n) ==
    LET req == <<Ev("gpt4_request", n)>> IN
    CASE reply.kind \in {"exc", "non200"} ->
             OcrResult(<<>>, NoUsage, FALSE, req \o OcrFailed(n) \o <<Ev("error_ocr", n)>>)
      [] OTHER -> OcrResult(Strip(reply.content), reply.usage, FALSE,
                            req \o <<Gpt4Reply(n, reply.usage)>>)

\* Replies of the three Mistral requests.  "exc" is an exception of the
\* request or of .json(); "blank" a 200 reply without id / url / pages.
MistralReplies ==
    [upload : {"exc", "non200", "blank", "ok"},
     url    : {"exc", "non200", "blank", "ok"},
     ocr    : {"exc", "non200", "blank", "ok"},
     content : OcrContents]

\* call_mistral_ocr: file upload, signed URL, OCR.  Nothing is caught here:
\* an exception of a request leaves the function.
CallMistralOcr(reply, n) ==
    LET up  == <<Ev("mistral_upload", n)>>
        su  == up \o <<Ev("mistral_signed_url", n)>>
        oc  == su \o <<Ev("mistral_ocr", n)>>
        err == <<Ev("error_ocr", n)>>
    IN
    CASE reply.upload = "exc"             -> OcrResult(<<>>, NoUsage, TRUE, up \o OcrFailed(n))
      [] reply.upload \in {"non200", "blank"} ->
             OcrResult(<<>>, NoUsage, FALSE, up \o OcrFailed(n) \o err)
      [] reply.url = "exc"                -> OcrResult(<<>>, NoUsage, TRUE, su \o OcrFailed(n))
      [] reply.url \in {"non200", "blank"}    ->
             OcrResult(<<>>, NoUsage, FALSE, su \o OcrFailed(n) \o err)
      [] reply.ocr = "exc"                -> OcrResult(<<>>, NoUsage, TRUE, oc \o OcrFailed(n))
      [] reply.ocr = "non200"             -> OcrResult(<<>>, NoUsage, FALSE, oc \o OcrFailed(n) \o err)
      [] reply.ocr = "blank"              -> OcrResult(<<>>, NoUsage, FALSE,
                                                       oc \o <<Ev("warn_ocr", n)>>)
      [] OTHER -> OcrResult(Strip(reply.content \o NL), NoUsage, FALSE, oc)

(* --------------------------- the page pass ------------------------------ *)

GCV == "Google Cloud Vision"
GPT4 == "GPT-4"
MISTRAL == "Mistral OCR"

\* The two implementations of extract_text_from_pdf_with_image_fallback.
Impls == {"app", "pdf_processing"}

\* The OCR choices each implementation documents: app.py's radio button offers
\* two, pdf_processing.py's docstring names three.
OcrChoices(im) == IF im = "app" THEN {GCV, GPT4} ELSE {GCV, GPT4, MISTRAL}

\* What the OCR branch of one page does to the pass: "append" the text,
\* "skip" the page (continue), "return_empty" (return "" at once), or "raise".
PageEffect(kind, text, usage, gcv, evs) ==
    [kind |-> kind, text |-> text, usage |-> usage, gcv |-> gcv, evs |-> evs]

\* Replies the selected backend can give for one page.
OcrReplies(choice) ==
    IF choice = GCV THEN GcvReplies
    ELSE IF choice = GPT4 THEN Gpt4Replies
    ELSE MistralReplies

\* app.py, the OCR branch of a page without text.  The GPT-4 branch uses the
\* key main already holds.
OcrDispatchApp(choice, secrets, reply, n) ==
    IF choice = GCV
    THEN LET k == AppGetKey(secrets, "api-key-google-vision")
             look == <<Ev("key_lookup", n)>> \o k.evs
             r == CallGoogleVisionOcr(reply, n, TRUE)
         IN IF ~k.ok
            THEN PageEffect("return_empty", <<>>, NoUsage, 0, look)
            ELSE PageEffect("append", r.text, NoUsage, 1,
                            look \o <<Ev("ocr_call", n)>> \o r.evs)
    ELSE LET r == CallGpt4ImageApi(reply, n)
         IN PageEffect("append", r.text, r.usage, 0, <<Ev("ocr_call", n)>> \o r.evs)

\* Mutant (C2): the count is raised for every backend.
GcvIncrementAlways(choice) == 1

\* Mutant (C21): pdf_processing.py leaves the count alone.
GcvIncrementNever(choice) == 0

\* pdf_processing.py: gcv_page_count += 1 stands in the Google Cloud Vision
\* branch only.
GcvIncrement(choice) == IF choice = GCV THEN 1 ELSE 0

\* pdf_processing.py, the OCR branch of a page without text: every backend's
\* key is looked up per page, and a missing key skips the page.
OcrDispatchPdf(choice, secrets, reply, n) ==
    LET name == IF choice = GCV THEN "api-key-google-vision"
                ELSE IF choice = GPT4 THEN "api-key-gpt-4o-mini"
                ELSE "api-key-mistral-ocr"
        k == SvcGetKey(secrets, name)
        look == <<Ev("key_lookup", n)>> \o k.evs
        r == IF choice = GCV THEN CallGoogleVisionOcr(reply, n, FALSE)
             ELSE IF choice = GPT4 THEN CallGpt4ImageApi(reply, n)
             ELSE CallMistralOcr(reply, n)
        evs == look \o <<Ev("ocr_call", n)>> \o r.evs
    IN IF ~k.ok THEN PageEffect("skip", <<>>, NoUsage, 0, look)
       ELSE IF r.raised THEN PageEffect("raise", <<>>, NoUsage, 0, evs)
       ELSE PageEffect("append", r.text, r.usage, GcvIncrement(choice), evs)

OcrDispatch(im, choice, secrets, reply, n) ==
    IF im = "app" THEN OcrDispatchApp(choice, secrets, reply, n)
    ELSE OcrDispatchPdf(choice, secrets, reply, n)

\* Mutant (C6): the page is put in front of the text collected so far.
AppendPageInFront(text, page_text) == page_text \o NL \o text

\* combined_text += page_text + "\n"
AppendPage(text, page_text) == text \o page_text \o NL

\* Mutant (C23): `=` in place of `+=`: the counters hold the last page's usage.
AddUsageOverwriting(total, usage) == [k \in UsageKeys |-> Get(usage, k, 0)]

\* usage_dict[k] += usage.get(k, 0) for every k
AddUsage(total, usage) == [k \in UsageKeys |-> total[k] + Get(usage, k, 0)]

\* The text the pass returns when its loop ends.
ReturnText(text) == Strip(text)

(* --------------------------------- JSON --------------------------------- *)

\* The values of a field: null, a string, a number.
JNull == [t |-> "null"]
JStr(s) == [t |-> "str", v |-> s]
JNum(n) == [t |-> "num", v |-> n]

\* A list of objects (container_info).
JList(rows) == [t |-> "list", v |-> rows]

Digits == <<"0", "1", "2", "3", "4", "5", "6", "7", "8", "9">>

DigitValue(c) == (CHOOSE d \in 1..Len(Digits) : Digits[d] = c) - 1

RECURSIVE NumText(_)
\* The decimal literal of a number that is not negative.
NumText(n) ==
    IF n < Len(Digits) THEN <<Digits[n + 1]>>
    ELSE NumText(n \div Len(Digits)) \o <<Digits[(n % Len(Digits)) + 1]>>

RECURSIVE NumValue(_)
NumValue(t) ==
    IF Len(t) = 1 THEN DigitValue(t[1])
    ELSE Len(Digits) * NumValue(SubSeq(t, 1, Len(t) - 1)) + DigitValue(t[Len(t)])

Quote == "\""
Backslash == "\\"

RECURSIVE Escape(_)
\* The inside of a string literal: quote, backslash and newline are escaped.
Escape(s) ==
    IF s = <<>> THEN <<>>
    ELSE (CASE Head(s) = "\n"      -> <<Backslash, "n">>
            [] Head(s) = Quote     -> <<Backslash, Quote>>
            [] Head(s) = Backslash -> <<Backslash, Backslash>>
            [] OTHER               -> <<Head(s)>>) \o Escape(Tail(s))

\* Mutant (C19): the escapes of a string literal are left as they are.
UnescapeNothing(t) == t

RECURSIVE Unescape(_)
\* The string a literal's inside stands for.
Unescape(t) ==
    IF t = <<>> THEN <<>>
    ELSE IF Head(t) = Backslash /\ Len(t) >= 2
         THEN (IF t[2] = "n" THEN <<"\n">> ELSE <<t[2]>>) \o Unescape(SubSeq(t, 3, Len(t)))
         ELSE <<Head(t)>> \o Unescape(Tail(t))

NullLiteral == <<"n", "u", "l", "l">>

\* json.dumps of a field value: its literal, as characters.
DumpScalar(v) ==
    CASE v.t = "null" -> NullLiteral
      [] v.t = "str"  -> <<Quote>> \o Escape(v.v) \o <<Quote>>
      [] OTHER        -> NumText(v.v)

\* json.loads of a literal.
LoadScalar(t) ==
    IF t = NullLiteral THEN JNull
    ELSE IF Head(t) = Quote THEN JStr(Unescape(SubSeq(t, 2, Len(t) - 1)))
    ELSE JNum(NumValue(t))

\* A JSON object is a function from its keys to values.  Its text keeps the
\* shape (members by key, list elements in order) and has a literal for every
\* field value.
Literal(chars) == [t |-> "literal", v |-> chars]

DumpValue(v) ==
    IF v.t = "list"
    THEN JList([j \in 1..Len(v.v) |-> [k \in DOMAIN v.v[j] |-> DumpScalar(v.v[j][k])]])
    ELSE Literal(DumpScalar(v))

LoadValue(x) ==
    IF x.t = "list"
    THEN JList([j \in 1..Len(x.v) |-> [k \in DOMAIN x.v[j] |-> LoadScalar(x.v[j][k])]])
    ELSE LoadScalar(x.v)

\* json.dumps and json.loads of an object.
JsonDumps(obj) == [k \in DOMAIN obj |-> DumpValue(obj[k])]

JsonLoads(text) == [k \in DOMAIN text |-> LoadValue(text[k])]

\* The keys the prompt asks for: ten fields and container_info, whose entries
\* have six fields.
FieldKeys == {"bill_of_lading_number", "shipper", "consignee", "port_of_loading",
              "port_of_discharge", "notify_parties", "port_of_discharge_agent",
              "vessel_and_voyage_no", "booking_ref", "number_of_containers"}

ContainerKeys == {"container_number", "seal_number", "container_size", "tare_weight",
                  "description_of_packages_and_goods", "gross_cargo_weight"}

\* An object whose field f has the value v and whose other fields have w.
Fields(keys, f, v, w) == [k \in keys |-> IF k = f THEN v ELSE w]

\* A reply object with the ten fields and container_info; lists is {} (the
\* object has no container_info) or holds the list.
ReplyObject(fields, lists) ==
    [k \in FieldKeys \cup (IF lists = {} THEN {} ELSE {"container_info"}) |->
        IF k = "container_info" THEN JList(CHOOSE rows \in lists : TRUE) ELSE fields[k]]

\* The container_info of the replies of one upload request: none, [], one row.
SampleRows(container_info) ==
    CASE container_info = "absent" -> {}
      [] container_info = "empty"  -> { <<>> }
      [] OTHER -> { << Fields(ContainerKeys, "seal_number", JNull, JStr(<<"a">>)) >> }

\* The content of the object replies of one upload request.
SampleContent(container_info) ==
    JsonDumps(ReplyObject(Fields(FieldKeys, "shipper", JStr(<<"a", "\n", "b">>), JNull),
                          SampleRows(container_info)))

NoContent == [k \in {} |-> Literal(NullLiteral)]

RECURSIVE ReplaceNewlines(_)
\* str.replace("\n", "<br>")
ReplaceNewlines(s) ==
    IF s = <<>> THEN <<>>
    ELSE (IF Head(s) = "\n" THEN <<"<", "b", "r", ">">> ELSE <<Head(s)>>)
             \o ReplaceNewlines(Tail(s))

\* format_field: "N/A" for None, else str(value) with its newlines replaced.
FormatField(value) ==
    CASE value.t = "null" -> <<"N", "/", "A">>
      [] value.t = "str"  -> ReplaceNewlines(value.v)
      [] OTHER            -> ReplaceNewlines(NumText(value.v))

\* What main reads out of the parsed object: prediction.get(key) for the ten
\* fields and for container_info.
ExtractionResult(obj) ==
    [k \in FieldKeys \cup {"container_info"} |-> Get(obj, k, JNull)]

\* extracted_data and details_data: the ten fields as they are put on the page.
DisplayedFields(obj) == [k \in FieldKeys |-> JStr(FormatField(Get(obj, k, JNull)))]

NoPrediction == [k \in {} |-> JNull]

(* ------------------------- the extraction reply ------------------------- *)

\* Shapes of what the extraction call gives back: an OpenAIError, a reply
\* without "choices", with an empty "choices" list, with content null, with
\* content that is not JSON, that is JSON but no object, or that is an object.
ReplyShapes == {"openai_error", "no_choices", "empty_choices", "null_content",
                "invalid_json", "json_non_object", "json_object"}

\* container_info of a parsed object: not there, an empty list, a list of rows.
ContainerInfos == {"absent", "empty", "rows"}

\* The "usage" member of an extraction reply: absent, or the three counters.
TextUsage(p, c) ==
    [k \in UsageKeys |-> IF k = "prompt_tokens" THEN p
                         ELSE IF k = "completion_tokens" THEN c ELSE p + c]

\* An object reply with its content.
ObjectReply(container_info, usage, content) ==
    [shape |-> "json_object", container_info |-> container_info, usage |-> usage,
     content |-> content]

ExtractReplies ==
    [shape : ReplyShapes \ {"json_object"}, container_info : {"absent"}, usage : {NoUsage},
     content : {NoContent}]
        \cup { ObjectReply(ci, u, SampleContent(ci)) :
                  ci \in ContainerInfos, u \in {NoUsage, TextUsage(3, 2)} }

NoReply == [shape |-> "none", container_info |-> "absent", usage |-> NoUsage,
            content |-> NoContent]

(* --------------------------- the cost section --------------------------- *)

\* Prices, in millionths of a cent, so that every amount is an integer.
\* (prompt_tokens / 1e6) * 0.15 * 100 cents: 15 per token.
TextPromptRate == 15

\* (completion_tokens / 1e6) * 0.60 * 100 cents: 60 per token.
TextCompletionRate == 60

\* image_prompt_tokens * 0.003 cents: 3000 per token.
ImagePromptRate == 3000

\* image_completion_tokens * 0.006 cents: 6000 per token.
ImageCompletionRate == 6000

\* gcv_count * 0.15 cents: 150000 per page.
GcvPageRate == 150000

\* Mutant (C17): a fixed fee is added to the prompt cost.
CostPromptCentsWithFee(prompt_tokens) == prompt_tokens * TextPromptRate + TextPromptRate

\* cost_prompt_cents and cost_completion_cents of the text-based extraction.
CostPromptCents(prompt_tokens) == prompt_tokens * TextPromptRate

CostCompletionCents(completion_tokens) == completion_tokens * TextCompletionRate

\* The two terms of image_cost_cents under GPT-4.
ImagePromptCents(image_prompt_tokens) == image_prompt_tokens * ImagePromptRate

ImageCompletionCents(image_completion_tokens) ==
    image_completion_tokens * ImageCompletionRate

\* image_cost_cents: per page under Google Cloud Vision, per token otherwise.
ImageCostCents(model, gcv_count, image_usage) ==
    IF model = GCV
    THEN gcv_count * GcvPageRate
    ELSE ImagePromptCents(Get(image_usage, "prompt_tokens", 0))
             + ImageCompletionCents(Get(image_usage, "completion_tokens", 0))

\* Mutant (C16): the total leaves the image cost out.
CombinedCostTextOnly(text_cost, image_cost_cents) == text_cost

\* combined_cost = text_cost + image_cost_cents
CombinedCost(text_cost, image_cost_cents) == text_cost + image_cost_cents

\* Nothing computed yet.
NoCost == [k \in {} |-> 0]

\* The amounts of lines 447-488.
Costs(text_usage, model, gcv_count, image_usage) ==
    LET cost_prompt_cents == CostPromptCents(Get(text_usage, "prompt_tokens", 0))
        cost_completion_cents == CostCompletionCents(Get(text_usage, "completion_tokens", 0))
        text_cost == cost_prompt_cents + cost_completion_cents
        image_cost_cents == ImageCostCents(model, gcv_count, image_usage)
    IN [cost_prompt_cents |-> cost_prompt_cents,
        cost_completion_cents |-> cost_completion_cents,
        text_cost |-> text_cost,
        image_cost_cents |-> image_cost_cents,
        combined_cost |-> CombinedCost(text_cost, image_cost_cents)]

(* ------------------------------- state ---------------------------------- *)

\* main is app.py's.  The page pass it calls is app.py's own function or the
\* function of the same name in pdf_processing.py, which reads its keys through
\* api_services.py; impl says which.
VARIABLES
    pc,              \* where main is
    impl,            \* which implementation of the page pass serves the request
    img_model,       \* the OCR choice (ocr_choice in pdf_processing.py)
    secrets,         \* st.secrets: SecretNames -> SecretStates
    file_bytes,      \* the upload: "none", "empty", "unreadable" or "pdf"
    pages,           \* pdf.pages: the embedded text of each page
    i,               \* pages the loop has finished
    full_text,       \* the pass's accumulator (combined_text in pdf_processing.py)
    usage_dict,      \* cumulative GPT-4 image usage (image_usage in main)
    gcv_page_count,  \* pages sent to Google Cloud Vision (gcv_count in main)
    combined_text,   \* the text the pass returned to main
    abort,           \* why the pass ended before its last page, or "none"
    outputs,         \* what each finished page gave: its embedded text or the OCR text
    response,        \* the extraction reply
    prediction,      \* the object main parsed out of the reply's content
    cost,            \* what the cost section computed, in millionths of a cent
    previous,        \* the session's previous run, if any: what its page pass returned
    replies,         \* what the OCR backend answered in each call of the pass that
                     \* is running or has just returned; main never holds them
    log,             \* calls issued and messages shown, in order
    file,            \* bol.xlsx
    file0,           \* bol.xlsx as it was before the first invocation
    wpc,             \* each writer's position in append_row_to_excel
    wb,              \* each writer's loaded workbook (its rows)
    row_data,        \* each writer's row_data argument
    xlog             \* loads and saves of the file, in order

reqVars == <<pc, impl, img_model, secrets, file_bytes, pages, i, full_text,
             usage_dict, gcv_page_count, combined_text, abort, outputs, response,
             cost, previous, replies, prediction, log>>

xlsVars == <<file, file0, wpc, wb, row_data, xlog>>

vars == <<pc, impl, img_model, secrets, file_bytes, pages, i, full_text,
          usage_dict, gcv_page_count, combined_text, abort, outputs, response,
          cost, previous, replies, prediction, log,
          file, file0, wpc, wb, row_data, xlog>>

Docs == UNION { [1..n -> PageTexts] : n \in 0..MaxPages }

\* The secrets a request reads: the extraction key, and the selected backend's.
SecretsRead(choice) ==
    {"api-key-gpt-4o-mini"}
        \cup (IF choice = GCV THEN {"api-key-google-vision"}
              ELSE IF choice = MISTRAL THEN {"api-key-mistral-ocr"} ELSE {})

InitRequest ==
    /\ pc = "start"
    /\ impl \in Impls
    /\ img_model \in OcrChoices(impl)
    /\ secrets \in [SecretNames -> SecretStates]
    /\ \A k \in SecretNames \ SecretsRead(img_model) : secrets[k] = "present"
    /\ file_bytes = "none"
    /\ pages = <<>>
    /\ i = 0
    /\ full_text = <<>>
    /\ usage_dict = ZeroUsage
    /\ gcv_page_count = 0
    /\ combined_text = <<>>
    /\ abort = "none"
    /\ outputs = <<>>
    /\ response = NoReply
    /\ cost = NoCost
    /\ previous = <<>>
    /\ replies = <<>>
    /\ prediction = NoPrediction
    /\ log = <<>>

(* --------------------------- app.py: main ------------------------------- *)

\* The request is over: main returned or an exception left it.
Finished == pc \in {"idle", "aborted", "rendered", "crashed"}

\* main, lines 303-306: the extraction key, before anything else.
Main_GetKey ==
    /\ pc = "start"
    /\ LET k == AppGetKey(secrets, "api-key-gpt-4o-mini") IN
        /\ log' = log \o <<Ev("key_lookup", 0)>> \o k.evs
        /\ pc' = IF k.ok THEN "upload" ELSE "aborted"
    /\ UNCHANGED <<impl, img_model, secrets, file_bytes, pages, i, full_text,
                   usage_dict, gcv_page_count, combined_text, abort, outputs, response,
                   cost, previous, replies, prediction>>
    /\ UNCHANGED xlsVars

\* Mutant (C14): the bytes are handed to the page pass without the test.
AfterUploadUnchecked(kind) == IF kind = "none" THEN "idle" ELSE "open"

\* Where main goes after uploaded_file.read(): no file yet, no bytes, bytes.
AfterUpload(kind) ==
    CASE kind = "none"  -> "idle"
      [] kind = "empty" -> "aborted"
      [] OTHER          -> "open"

\* main, lines 308-314: the upload widget and the read of its bytes.
Main_Upload ==
    /\ pc = "upload"
    /\ \E kind \in {"none", "empty", "unreadable", "pdf"} :
       \E doc \in (IF kind = "pdf" THEN Docs ELSE {<<>>}) :
        /\ file_bytes' = kind
        /\ pages' = doc
        /\ pc' = AfterUpload(kind)
        /\ log' = IF kind = "empty" THEN log \o <<Ev("error_empty_upload", 0)>> ELSE log
    /\ UNCHANGED <<impl, img_model, secrets, i, full_text, usage_dict, gcv_page_count,
                   combined_text, abort, outputs, response, cost, previous, replies, prediction>>
    /\ UNCHANGED xlsVars

\* What the pass hands back to main: (combined_text, usage_dict, gcv_page_count).
Returned(text, usage, gcv) == [text |-> text, usage |-> usage, gcv |-> gcv]

\* Mutant (C22): the except clause hands back new counters.
ReturnEmptyReset(usage, gcv) == Returned(<<>>, ZeroUsage, 0)

\* `return "", usage_dict, gcv_page_count` (cumulative_usage in app.py): the
\* except clause and the early returns hand back the counters as they stand.
ReturnEmpty(usage, gcv) == Returned(<<>>, usage, gcv)

\* The pass returns "" from its except clause or from an early return.
PassEnds(evs, cause) ==
    /\ log' = log \o evs
    /\ abort' = cause
    /\ LET r == ReturnEmpty(usage_dict, gcv_page_count) IN
        /\ combined_text' = r.text
        /\ usage_dict' = r.usage
        /\ gcv_page_count' = r.gcv
    /\ pc' = "check_text"
    /\ UNCHANGED <<impl, img_model, secrets, file_bytes, pages, i, full_text,
                   outputs, response, cost, previous, prediction>>
    /\ UNCHANGED xlsVars

\* pdfplumber.open and the test for pages.
Pass_Open ==
    /\ pc = "open"
    /\ \/ /\ file_bytes = "unreadable"
          /\ PassEnds(<<Ev("pdf_open", 0), Ev("error_pdf", 0)>>, "open")
          /\ UNCHANGED replies
       \/ /\ file_bytes = "pdf" /\ pages = <<>>
          /\ PassEnds(<<Ev("pdf_open", 0), Ev("error_no_pages", 0)>>, "no_pages")
          /\ UNCHANGED replies
       \/ /\ file_bytes = "pdf" /\ pages # <<>>
          /\ log' = log \o <<Ev("pdf_open", 0)>>
          /\ pc' = "page"
          /\ UNCHANGED <<impl, img_model, secrets, file_bytes, pages, i, full_text,
                         usage_dict, gcv_page_count, combined_text, abort, outputs,
                         response, cost, previous, replies, prediction>>
          /\ UNCHANGED xlsVars

\* What a finished page gave to the text: kind is "text" (embedded text),
\* "ocr" (the OCR function's result) or "skipped" (nothing was appended).
Output(n, kind, text) == [page |-> n, kind |-> kind, text |-> text]

\* What the backend was asked and answered in one OCR call: under Mistral OCR
\* a request after the first one that failed was never sent, and a reply that
\* is not read in full carries no text.
Received(choice, reply) ==
    IF choice # MISTRAL THEN reply
    ELSE IF reply.upload # "ok"
         THEN [reply EXCEPT !.url = "unsent", !.ocr = "unsent", !.content = <<>>]
    ELSE IF reply.url # "ok" THEN [reply EXCEPT !.ocr = "unsent", !.content = <<>>]
    ELSE IF reply.ocr # "ok" THEN [reply EXCEPT !.content = <<>>]
    ELSE reply

\* The reply of the backend to the OCR call of page n.
Answer(n, reply) == [page |-> n, reply |-> reply]

\* One turn of the loop over pdf.pages.
Pass_Page ==
    /\ pc = "page"
    /\ i < Len(pages)
    /\ LET n == i + 1
           page_text == pages[n]
           read == <<Ev("extract_text", n)>>
           raster == read \o <<Ev("info_no_text", n), Ev("to_image", n)>>
       IN
       \/ \* page.extract_text() raises
          /\ PassEnds(read \o <<Ev("raised_extract_text", n), Ev("error_pdf", n)>>,
                      "extract_text")
          /\ UNCHANGED replies
       \/ /\ HasText(page_text)
          /\ full_text' = AppendPage(full_text, page_text)
          /\ outputs' = Append(outputs, Output(n, "text", page_text))
          /\ i' = n
          /\ log' = log \o read
          /\ UNCHANGED <<pc, impl, img_model, secrets, file_bytes, pages, usage_dict,
                         gcv_page_count, combined_text, abort, response, cost, previous, replies,
                         prediction>>
          /\ UNCHANGED xlsVars
       \/ \* page.to_image() raises
          /\ ~HasText(page_text)
          /\ PassEnds(raster \o <<Ev("raised_to_image", n), Ev("error_pdf", n)>>,
                      "to_image")
          /\ UNCHANGED replies
       \/ /\ ~HasText(page_text)
          /\ \E reply \in OcrReplies(img_model) :
             LET e == OcrDispatch(impl, img_model, secrets, reply, n) IN
             \/ /\ e.kind = "append"
                /\ full_text' = AppendPage(full_text, e.text)
                /\ outputs' = Append(outputs, Output(n, "ocr", e.text))
                /\ usage_dict' = AddUsage(usage_dict, e.usage)
                /\ gcv_page_count' = gcv_page_count + e.gcv
                /\ i' = n
                /\ replies' = Append(replies, Answer(n, Received(img_model, reply)))
                /\ log' = log \o raster \o e.evs
                /\ UNCHANGED <<pc, impl, img_model, secrets, file_bytes, pages,
                               combined_text, abort, response, cost, previous,
                               prediction>>
                /\ UNCHANGED xlsVars
             \/ /\ e.kind = "skip"
                /\ outputs' = Append(outputs, Output(n, "skipped", <<>>))
                /\ i' = n
                /\ log' = log \o raster \o e.evs
                /\ UNCHANGED <<pc, impl, img_model, secrets, file_bytes, pages,
                               full_text, usage_dict, gcv_page_count, combined_text,
                               abort, response, cost, previous, replies, prediction>>
                /\ UNCHANGED xlsVars
             \/ /\ e.kind = "return_empty"
                /\ PassEnds(raster \o e.evs, "missing_key")
                /\ UNCHANGED replies
             \/ /\ e.kind = "raise"
                /\ PassEnds(raster \o e.evs \o <<Ev("raised_ocr", n), Ev("error_pdf", n)>>,
                            "ocr_exception")
                /\ replies' = Append(replies, Answer(n, Received(img_model, reply)))

\* Mutant (C9): the return statement stands inside the loop.
LoopDoneAfterFirstPage == i >= 1

\* The for loop has no page left.
LoopDone == i = Len(pages)

\* The loop is over: return combined_text.strip(), usage_dict, gcv_page_count.
Pass_Return ==
    /\ pc = "page"
    /\ LoopDone
    /\ combined_text' = ReturnText(full_text)
    /\ pc' = "check_text"
    /\ UNCHANGED <<impl, img_model, secrets, file_bytes, pages, i, full_text,
                   usage_dict, gcv_page_count, abort, outputs, response, cost, previous, replies,
                   prediction, log>>
    /\ UNCHANGED xlsVars

\* Mutant (C13): the test is `combined_text is None`, which a str never is.
NoTextIsNone(text) == FALSE

\* `not combined_text`
NoText(text) == text = <<>>

\* main, lines 318-320.
Main_CheckText ==
    /\ pc = "check_text"
    /\ IF NoText(combined_text)
       THEN /\ log' = log \o <<Ev("warn_no_text", 0)>>
            /\ pc' = "aborted"
       ELSE /\ log' = log
            /\ pc' = "extract"
    /\ replies' = <<>>
    /\ UNCHANGED <<impl, img_model, secrets, file_bytes, pages, i, full_text,
                   usage_dict, gcv_page_count, combined_text, abort, outputs, response,
                   cost, previous, prediction>>
    /\ UNCHANGED xlsVars

\* main, lines 323-325, with call_gpt4o_mini_text_api.
Main_Extract ==
    /\ pc = "extract"
    /\ \E reply \in ExtractReplies :
        /\ response' = reply
        /\ IF reply.shape = "openai_error"
           THEN /\ log' = log \o <<Ev("extract_call", 0), Ev("extract_failed", 0),
                                    Ev("error_extract", 0)>>
                /\ pc' = "aborted"
           ELSE /\ log' = log \o <<Ev("extract_call", 0)>>
                /\ pc' = "parse"
    /\ UNCHANGED <<impl, img_model, secrets, file_bytes, pages, i, full_text,
                   usage_dict, gcv_page_count, combined_text, abort, outputs, cost,
                   previous, replies, prediction>>
    /\ UNCHANGED xlsVars

\* Mutant (C8): the except clause names KeyError only.
ParseOutcomeKeyErrorOnly(shape) ==
    CASE shape = "no_choices" -> "caught"
      [] shape \in {"empty_choices", "null_content", "invalid_json"} -> "uncaught"
      [] OTHER -> "parsed"

\* What the try block of lines 327-334 does with a reply: "caught" (KeyError or
\* JSONDecodeError), "uncaught" (any other exception) or "parsed".
ParseOutcome(shape) ==
    CASE shape \in {"no_choices", "invalid_json"}     -> "caught"
      [] shape \in {"empty_choices", "null_content"}  -> "uncaught"
      [] OTHER                                        -> "parsed"

\* main, lines 327-334.
Main_Parse ==
    /\ pc = "parse"
    /\ LET o == ParseOutcome(response.shape) IN
        /\ pc' = CASE o = "caught" -> "aborted" [] o = "uncaught" -> "crashed"
                   [] OTHER -> "render"
        /\ log' = CASE o = "caught" -> log \o <<Ev("error_json", 0), Ev("raw_response", 0)>>
                    [] o = "uncaught" -> log \o <<Ev("uncaught_exception", 0)>>
                    [] OTHER -> log
        /\ prediction' = IF o = "parsed" /\ response.shape = "json_object"
                         THEN JsonLoads(response.content)
                         ELSE prediction
    /\ UNCHANGED <<impl, img_model, secrets, file_bytes, pages, i, full_text,
                   usage_dict, gcv_page_count, combined_text, abort, outputs, response,
                   cost, previous, replies>>
    /\ UNCHANGED xlsVars

\* The tables of lines 337-443, in the order they are drawn.
FieldTables(reply) ==
    <<Ev("fields_table", 0), Ev("details_table", 0)>>
        \o (IF reply.container_info = "rows" THEN <<Ev("container_table", 0)>> ELSE <<>>)

\* main, lines 337-443: prediction.get(...) needs a dict.
Main_Render ==
    /\ pc = "render"
    /\ IF response.shape = "json_object"
       THEN /\ log' = log \o FieldTables(response)
            /\ pc' = "cost"
       ELSE /\ log' = log \o <<Ev("uncaught_exception", 0)>>
            /\ pc' = "crashed"
    /\ UNCHANGED <<impl, img_model, secrets, file_bytes, pages, i, full_text,
                   usage_dict, gcv_page_count, combined_text, abort, outputs, response,
                   cost, previous, replies, prediction>>
    /\ UNCHANGED xlsVars

\* The cost section of lines 445-489, in the order it is computed and drawn.
CostSection ==
    <<Ev("text_cost", 0), Ev("text_cost_table", 0),
      Ev("image_cost", 0), Ev("image_cost_table", 0),
      Ev("combined_cost", 0), Ev("combined_cost_line", 0)>>

\* main, lines 445-489.
Main_Cost ==
    /\ pc = "cost"
    /\ cost' = Costs(response.usage, img_model, gcv_page_count, usage_dict)
    /\ log' = log \o CostSection
    /\ pc' = "rendered"
    /\ UNCHANGED <<impl, img_model, secrets, file_bytes, pages, i, full_text,
                   usage_dict, gcv_page_count, combined_text, abort, outputs, response,
                   previous, replies, prediction>>
    /\ UNCHANGED xlsVars

\* Mutant (C18): the accumulators are module-level and keep what they held.
PassLocalsKept(text, usage, gcv) ==
    [full_text |-> text, usage_dict |-> usage, gcv_page_count |-> gcv]

\* pdf_processing.py 43-45, app.py 255-257: every call of the pass creates its
\* accumulators anew, whatever an earlier call left in its own.
PassLocals(text, usage, gcv) ==
    [full_text |-> <<>>, usage_dict |-> ZeroUsage, gcv_page_count |-> 0]

\* The answer to the OCR call of page n among the answers rs.
AnswerFor(rs, n) == rs[CHOOSE j \in 1..Len(rs) : rs[j].page = n].reply

\* Where page.extract_text() or page.to_image() raises, if it does.
NoFault == [kind |-> "none", page |-> 0]
Fault(kind, n) == [kind |-> kind, page |-> n]

RECURSIVE PassFrom(_, _, _, _, _, _, _, _)
\* The loop of implementation im from page n on, acc being what it has
\* accumulated: the result it returns for the document doc, the OCR choice,
\* the secrets keys, the backend's answers rs and the fault of the document.
PassFrom(im, choice, keys, doc, rs, fault, n, acc) ==
    IF n > Len(doc) THEN Returned(ReturnText(acc.text), acc.usage, acc.gcv)
    ELSE IF fault = Fault("extract_text", n) THEN ReturnEmpty(acc.usage, acc.gcv)
    ELSE IF HasText(doc[n])
         THEN PassFrom(im, choice, keys, doc, rs, fault, n + 1,
                       Returned(AppendPage(acc.text, doc[n]), acc.usage, acc.gcv))
    ELSE IF fault = Fault("to_image", n) THEN ReturnEmpty(acc.usage, acc.gcv)
    ELSE LET e == OcrDispatch(im, choice, keys, AnswerFor(rs, n), n) IN
         CASE e.kind = "append" ->
                  PassFrom(im, choice, keys, doc, rs, fault, n + 1,
                           Returned(AppendPage(acc.text, e.text),
                                    AddUsage(acc.usage, e.usage), acc.gcv + e.gcv))
           [] e.kind = "skip" -> PassFrom(im, choice, keys, doc, rs, fault, n + 1, acc)
           [] OTHER -> ReturnEmpty(acc.usage, acc.gcv)

\* extract_text_from_pdf_with_image_fallback of implementation im as a function
\* of the upload, the OCR choice, the secrets and what the backend answers.
ExtractTextFromPdfWithImageFallback(im, choice, keys, bytes, doc, rs, fault) ==
    LET locals == PassLocals(<<>>, ZeroUsage, 0)
        acc == Returned(locals.full_text, locals.usage_dict, locals.gcv_page_count)
    IN IF bytes # "pdf" \/ doc = <<>> THEN ReturnEmpty(acc.usage, acc.gcv)
       ELSE PassFrom(im, choice, keys, doc, rs, fault, 1, acc)

\* What is kept of a run for the reader of the session: whether its pass
\* returned tokens, a page count.
PassResult == [usage |-> usage_dict # ZeroUsage, gcv |-> gcv_page_count # 0]

\* The next upload: Streamlit runs the script again from its first line.  The
\* radio button may have been moved; st.secrets are what they were; nothing
\* main or the pass held in a local survives, and the pass called by the new
\* run starts with the accumulators of PassLocals.
Main_Rerun ==
    /\ Finished
    /\ previous' = <<PassResult>>
    /\ replies' = <<>>
    /\ LET locals == PassLocals(full_text, usage_dict, gcv_page_count) IN
        /\ full_text' = locals.full_text
        /\ usage_dict' = locals.usage_dict
        /\ gcv_page_count' = locals.gcv_page_count
    /\ pc' = "start"
    /\ img_model' \in OcrChoices(impl)
    /\ file_bytes' = "none"
    /\ pages' = <<>>
    /\ i' = 0
    /\ combined_text' = <<>>
    /\ abort' = "none"
    /\ outputs' = <<>>
    /\ response' = NoReply
    /\ prediction' = NoPrediction
    /\ cost' = NoCost
    /\ log' = <<>>
    /\ UNCHANGED <<impl, secrets>>
    /\ UNCHANGED xlsVars

NextRequest ==
    \/ Main_GetKey
    \/ Main_Upload
    \/ Pass_Open
    \/ Pass_Page
    \/ Pass_Return
    \/ Main_CheckText
    \/ Main_Extract
    \/ Main_Parse
    \/ Main_Render
    \/ Main_Cost

(* ------------------- excel_utils.py: append_row_to_excel ---------------- *)

Writers == 1..NumWriters

Columns == {"A", "B"}

\* A dict in insertion order: a sequence of <<key, value>> with distinct keys.
Keys(d) == [j \in 1..Len(d) |-> d[j][1]]

DictGet(d, k, default) ==
    IF \E j \in 1..Len(d) : d[j][1] = k
    THEN d[CHOOSE j \in 1..Len(d) : d[j][1] = k][2]
    ELSE default

\* The value a writer passes under a key: it names the key and the writer.
Value(k, w) == k \o ToString(w)

\* The row_data a writer may pass.
RowDatas(w) ==
    { << <<"A", Value("A", w)>> >>,
      << <<"B", Value("B", w)>>, <<"A", Value("A", w)>> >>,
      << <<"B", Value("B", w)>> >> }

\* A stored row: its cells, and the invocation that appended it (0: a row
\* the file held at the start).
Row(cells, by) == [cells |-> cells, by |-> by]

\* The file: absent, a workbook with its rows, or something load_workbook refuses.
AbsentFile == [state |-> "absent", rows |-> <<>>]
ValidFile(rows) == [state |-> "valid", rows |-> rows]
InvalidFile == [state |-> "invalid", rows |-> <<>>]

InitialFiles ==
    { AbsentFile,
      InvalidFile,
      ValidFile(<< Row(<<"A">>, 0) >>),
      ValidFile(<< Row(<<"A", "B">>, 0), Row(<<"a0", "b0">>, 0) >>) }

\* Lines 43-46: a new workbook whose first row is the keys of row_data.
NewWorkbook(w, d) == << Row(Keys(d), w) >>

\* Mutant (C24): the new row is the values of row_data in its own order.
NewRowInKeyOrder(header, d) == [j \in 1..Len(d) |-> d[j][2]]

\* Lines 49-51: the new row, ordered by the header row.
NewRow(header, d) == [j \in 1..Len(header) |-> DictGet(d, header[j], "")]

\* Mutant (C12): the call writes its own keys over the first row.
AppendedUnderOwnHeader(w, rows, d) ==
    << Row(Keys(d), w) >> \o Tail(rows) \o << Row(NewRow(Keys(d), d), w) >>

\* Lines 48-55: the sheet after ws.append(new_row).
Appended(w, rows, d) == rows \o << Row(NewRow(rows[1].cells, d), w) >>

\* Mutant (C10): save re-reads the file and adds only the new row to it.
SavedMerged(current, sheet) ==
    IF current.state = "valid"
    THEN ValidFile(current.rows \o << sheet[Len(sheet)] >>)
    ELSE ValidFile(sheet)

\* Line 70: wb.save(file_path) writes the writer's own workbook over the file.
Saved(current, sheet) == ValidFile(sheet)

InitExcel ==
    /\ file \in InitialFiles
    /\ file0 = file
    /\ wpc = [w \in Writers |-> "idle"]
    /\ wb = [w \in Writers |-> <<>>]
    /\ row_data = [w \in Writers |-> <<>>]
    /\ xlog = <<>>

\* Lines 38-46: load_workbook, or a new workbook on FileNotFoundError and
\* InvalidFileException.  load_workbook raises InvalidFileException for a file
\* format it does not support and other exceptions (BadZipFile, ...) for a
\* damaged file; those are not caught.
Excel_Load(w) ==
    /\ wpc[w] = "idle"
    /\ \E d \in RowDatas(w) :
        /\ row_data' = [row_data EXCEPT ![w] = d]
        /\ xlog' = xlog \o << [op |-> "load", w |-> w] >>
        /\ \/ /\ file.state = "valid"
              /\ wb' = [wb EXCEPT ![w] = file.rows]
              /\ wpc' = [wpc EXCEPT ![w] = "loaded"]
           \/ /\ file.state \in {"absent", "invalid"}
              /\ wb' = [wb EXCEPT ![w] = NewWorkbook(w, d)]
              /\ wpc' = [wpc EXCEPT ![w] = "loaded"]
           \/ /\ file.state = "invalid"
              /\ wb' = wb
              /\ wpc' = [wpc EXCEPT ![w] = "raised"]
    /\ UNCHANGED <<file, file0>>
    /\ UNCHANGED reqVars

\* Lines 48-70: order the row by the header, append it, save the workbook.
\* (The copy of the previous row's cell style changes no value.)
Excel_Save(w) ==
    /\ wpc[w] = "loaded"
    /\ file' = Saved(file, Appended(w, wb[w], row_data[w]))
    /\ wpc' = [wpc EXCEPT ![w] = "done"]
    /\ xlog' = xlog \o << [op |-> "save", w |-> w] >>
    /\ UNCHANGED <<file0, wb, row_data>>
    /\ UNCHANGED reqVars

NextExcel == \E w \in Writers : Excel_Load(w) \/ Excel_Save(w)

(* --------------------------- specifications ----------------------------- *)

\* No request is running: the state the request's variables start in, with
\* the default radio choice and every secret set.
NoRequest ==
    /\ InitRequest
    /\ impl = "app"
    /\ img_model = GCV
    /\ \A k \in SecretNames : secrets[k] = "present"

\* Nobody writes the spreadsheet.
NoWriter ==
    /\ InitExcel
    /\ file = AbsentFile

\* One upload request, from the first line of main to its end.
Init == InitRequest /\ NoWriter

Spec == Init /\ [][NextRequest]_vars

\* One upload request in which every call returns: main and the pass are one
\* thread of straight-line code and loops over the pages, so a step that can
\* be taken is taken.
SpecFair == Init /\ [][NextRequest]_vars /\ WF_vars(NextRequest)

\* Invocations of append_row_to_excel on one file, interleaved freely.
InitX == NoRequest /\ InitExcel

SpecExcel == InitX /\ [][NextExcel]_vars

\* Invocations of append_row_to_excel on one file, one after another: a
\* call starts when the calls before it have returned or raised.
Calls == 1..MaxCalls

InitSeq ==
    /\ NoRequest
    /\ file \in InitialFiles
    /\ file0 = file
    /\ wpc = [w \in Calls |-> "idle"]
    /\ wb = [w \in Calls |-> <<>>]
    /\ row_data = [w \in Calls |-> <<>>]
    /\ xlog = <<>>

Seq_Load(w) ==
    /\ \A u \in 1..(w - 1) : wpc[u] \in {"done", "raised"}
    /\ Excel_Load(w)

NextSeq == \E w \in Calls : Seq_Load(w) \/ Excel_Save(w)

SpecSeq == InitSeq /\ [][NextSeq]_vars

\* The cost section on its own: main stands at line 445 with the counters the
\* page pass and the extraction reply can have handed it.
TokenCounts == 0..MaxTokens

Usages == {NoUsage} \cup { TextUsage(p, c) : p \in TokenCounts, c \in TokenCounts }

InitCost ==
    /\ pc = "cost"
    /\ impl = "app"
    /\ img_model \in OcrChoices("app")
    /\ secrets = [k \in SecretNames |-> "present"]
    /\ file_bytes = "pdf"
    /\ pages = <<>>
    /\ i = 0
    /\ full_text = <<>>
    /\ usage_dict \in (IF img_model = GPT4 THEN Usages \ {NoUsage} ELSE {ZeroUsage})
    /\ gcv_page_count \in (IF img_model = GCV THEN 0..MaxPages ELSE {0})
    /\ combined_text = <<>>
    /\ abort = "none"
    /\ outputs = <<>>
    /\ response \in { ObjectReply("absent", u, SampleContent("absent")) : u \in Usages }
    /\ prediction = JsonLoads(response.content)
    /\ cost = NoCost
    /\ previous = <<>>
    /\ replies = <<>>
    /\ log = <<>>
    /\ NoWriter

NextCost == Main_Cost

SpecCost == InitCost /\ [][NextCost]_vars

\* The parse of a reply on its own: main stands at line 327 with a reply whose
\* content is an object with the ten fields and container_info.
FieldValues ==
    { JNull, JNum(7), JNum(12), JStr(<<"7">>), JStr(NullLiteral),
      JStr(<<"a", "\n", "b">>), JStr(<<Backslash, "n">>), JStr(<<Quote, "a">>) }

\* Lists of one to MaxContainers entries; entry j has the number j in one
\* field, a string in the others.
ContainerRows ==
    { [j \in 1..n |-> Fields(ContainerKeys, f, JNum(j), JStr(<<"a", "\n", "b">>))] :
        n \in 1..MaxContainers, f \in ContainerKeys }

FullObjects ==
    { ReplyObject(Fields(FieldKeys, f, v, w), {rows}) :
        f \in FieldKeys, v \in FieldValues, w \in FieldValues, rows \in ContainerRows }

InitParse ==
    /\ pc = "parse"
    /\ impl = "app"
    /\ img_model = GCV
    /\ secrets = [k \in SecretNames |-> "present"]
    /\ file_bytes = "pdf"
    /\ pages = <<>>
    /\ i = 0
    /\ full_text = <<>>
    /\ usage_dict = ZeroUsage
    /\ gcv_page_count = 0
    /\ combined_text = <<>>
    /\ abort = "none"
    /\ outputs = <<>>
    /\ response \in { ObjectReply("rows", NoUsage, JsonDumps(obj)) : obj \in FullObjects }
    /\ prediction = NoPrediction
    /\ cost = NoCost
    /\ previous = <<>>
    /\ replies = <<>>
    /\ log = <<>>
    /\ NoWriter

NextParse == Main_Parse \/ Main_Render \/ Main_Cost

SpecParse == InitParse /\ [][NextParse]_vars

\* A session: one upload after another, each served by a run of main, without
\* end.
NextUploads == NextRequest \/ Main_Rerun

SpecUploads == Init /\ [][NextUploads]_vars

(* ----------------------- reading the log and inputs --------------------- *)

\* Positions of an event in the log.
At(e, n) == { j \in 1..Len(log) : log[j] = Ev(e, n) }

Logged(e, n) == \E j \in 1..Len(log) : log[j] = Ev(e, n)

\* Invocations of the selected backend's OCR function for page n.
OcrCalls(n) == Cardinality(At("ocr_call", n))

\* Requests sent to an OCR backend, and requests of any kind.
OcrRequestEvents == {"gcv_request", "gpt4_request", "mistral_upload",
                     "mistral_signed_url", "mistral_ocr"}

\* A page whose embedded text is empty or whitespace-only.
BlankPage(t) == \A j \in 1..Len(t) : IsSpace(t[j])

BlankPages == { n \in 1..Len(pages) : BlankPage(pages[n]) }

\* The page pass was entered and has returned to main.
PassReturned ==
    /\ Logged("pdf_open", 0)
    /\ pc \notin {"open", "page"}

\* The secret holding the selected OCR backend's key.
OcrSecret ==
    IF img_model = GCV THEN "api-key-google-vision"
    ELSE IF img_model = MISTRAL THEN "api-key-mistral-ocr"
    ELSE "api-key-gpt-4o-mini"

AllSecretsSet == \A k \in SecretNames : secrets[k] = "present"

\* Messages that tell the user of a failure.
MessageEvents == {"error_key", "error_empty_upload", "error_pdf", "error_no_pages",
                  "error_ocr", "warn_ocr", "warn_no_text", "error_extract",
                  "error_json", "raw_response"}

(* -------------------------------- C1 ------------------------------------ *)

\* Pages on which the call of the selected OCR backend failed: a failure the
\* OCR function reported itself, or an exception that left it.
OcrFailedPages ==
    { n \in 1..Len(pages) : Logged("error_ocr", n) \/ Logged("raised_ocr", n) }

\* C1 (as claimed; the code violates it): a failure of the selected OCR backend
\* on one page is reported, and the pass goes on: unless something other than an
\* OCR call ends the pass, every page is processed and the text collected from
\* the earlier pages is returned.
C1_OcrFailureDoesNotAbort ==
    \A n \in OcrFailedPages :
        /\ Logged("error_ocr", n) \/ Logged("error_pdf", n)
        /\ (PassReturned /\ abort \notin {"extract_text", "to_image", "missing_key"})
              => /\ i = Len(pages)
                 /\ (\E m \in 1..(n - 1) : ~BlankPage(pages[m])) => combined_text # <<>>

(* -------------------------------- C2 ------------------------------------ *)

\* C2 (as claimed; refuted): whatever backend is selected, the count the pass
\* returns is the number of pages with empty or whitespace-only embedded text.
\* Stated for the passes in which nothing fails: every page processed, every
\* secret set.
C2_CountIsBlankPages ==
    (PassReturned /\ abort = "none" /\ AllSecretsSet)
        => gcv_page_count = Cardinality(BlankPages)

\* C2 (amended): the returned count is the number of pages submitted to Google
\* Cloud Vision.  It is 0 under GPT-4 and Mistral OCR; under Google Cloud Vision
\* it is the number of empty or whitespace-only pages when the key is set and
\* the pass processes every page, and the number of pages submitted before the
\* pass ended otherwise.
C2_CountIsGcvPages ==
    /\ gcv_page_count = Cardinality({ n \in 1..Len(pages) : Logged("gcv_request", n) })
    /\ img_model # GCV => gcv_page_count = 0
    /\ (PassReturned /\ img_model = GCV /\ abort = "none"
            /\ secrets["api-key-google-vision"] = "present")
          => gcv_page_count = Cardinality(BlankPages)

\* The spec's scenario under Google Cloud Vision: text on page 1, none on page 2.
C2_Witness ==
    /\ PassReturned /\ abort = "none" /\ img_model = GCV
    /\ Len(pages) = 2 /\ ~BlankPage(pages[1]) /\ BlankPage(pages[2])
    /\ gcv_page_count = 1

(* -------------------------------- C3 ------------------------------------ *)

\* C3 (as claimed; refuted): every page with empty or whitespace-only text gets
\* exactly one OCR call.  Stated for the passes no exception ended.
C3_ExactlyOneCallPerBlankPage ==
    (PassReturned /\ abort \in {"none", "missing_key"})
        => \A n \in BlankPages : OcrCalls(n) = 1

\* The loop read page n's text and rasterized the page.
Rasterized(n) ==
    /\ Logged("extract_text", n) /\ ~Logged("raised_extract_text", n)
    /\ ~Logged("raised_to_image", n)

\* C3 (amended): at most one OCR call is attempted per page and none for a page
\* with embedded text; a page with empty or whitespace-only text gets exactly
\* one call when the pass reaches it, its rasterization succeeds and the
\* selected backend's key is set, and no call otherwise.
C3_AtMostOneCallPerPage ==
    \A n \in 1..Len(pages) :
        LET calls == OcrCalls(n) IN
        /\ calls <= 1
        /\ ~BlankPage(pages[n]) => calls = 0
        /\ (BlankPage(pages[n]) /\ (n <= i \/ PassReturned))
              => (calls = 1 <=> (Rasterized(n) /\ secrets[OcrSecret] = "present"))

\* Two pages without text, each sent to the backend once.
C3_Witness ==
    /\ PassReturned /\ abort = "none"
    /\ Len(pages) = 2 /\ BlankPages = {1, 2}
    /\ OcrCalls(1) = 1 /\ OcrCalls(2) = 1

(* -------------------------------- C4 ------------------------------------ *)

\* C4 (as claimed; the code violates it): no exception leaves main; a request
\* that is not rendered ends aborted, with a message on the page.
C4_NoUncaughtException ==
    /\ pc # "crashed"
    /\ pc = "aborted" => \E j \in 1..Len(log) : log[j].ev \in MessageEvents

(* -------------------------------- C5 ------------------------------------ *)

\* Positions of the log at which a key lookup found the credential missing:
\* main's lookup of the extraction key, a page's lookup of the OCR key.
MissingKeyAt ==
    { j \in 1..Len(log) :
        /\ log[j].ev = "key_lookup"
        /\ secrets[IF log[j].page = 0 THEN "api-key-gpt-4o-mini" ELSE OcrSecret]
               # "present" }

CallEvents == OcrRequestEvents \cup {"ocr_call", "extract_call"}

\* C5 (as claimed; the code violates it): a missing credential is reported, no
\* OCR call and no extraction call follows its detection, and the request ends
\* aborted.
C5_MissingCredentialAborts ==
    \A j \in MissingKeyAt :
        /\ j < Len(log) /\ log[j + 1].ev = "error_key"
        /\ \A k \in (j + 1)..Len(log) : log[k].ev \notin CallEvents
        /\ Finished => pc = "aborted"

(* -------------------------------- C6 ------------------------------------ *)

RECURSIVE JoinLines(_)
\* Page outputs one after another, a newline after each.
JoinLines(outs) ==
    IF outs = <<>> THEN <<>> ELSE Head(outs).text \o NL \o JoinLines(Tail(outs))

RECURSIVE JoinSeparated(_)
\* Page outputs one after another, a newline between two of them.
JoinSeparated(outs) ==
    IF outs = <<>> THEN <<>>
    ELSE IF Len(outs) = 1 THEN Head(outs).text
    ELSE Head(outs).text \o NL \o JoinSeparated(Tail(outs))

\* The outputs of the pages that appended something.
AppendedOutputs(outs) == SelectSeq(outs, LAMBDA o : o.kind # "skipped")

\* C6 (as claimed; refuted): the returned text is exactly the page outputs in
\* page order, separated by newlines, none altered or dropped.  Stated for the
\* passes in which nothing fails: every page processed, every secret set.
C6_TextIsPageOutputs ==
    (PassReturned /\ abort = "none" /\ AllSecretsSet)
        => combined_text \in {JoinSeparated(outputs), JoinLines(outputs)}

\* C6 (amended): a pass that processes every page returns the page outputs in
\* page order, a newline after each, with the whitespace at the two ends of
\* the whole block removed; a page skipped for a missing key (pdf_processing.py)
\* adds nothing, not even its newline.  A pass that ends early returns the
\* empty text.
C6_TextIsStrippedPageOutputs ==
    PassReturned =>
        /\ abort = "none" =>
              /\ Len(outputs) = Len(pages)
              /\ \A n \in 1..Len(pages) :
                    /\ outputs[n].page = n
                    /\ ~BlankPage(pages[n]) => outputs[n] = Output(n, "text", pages[n])
              /\ combined_text = Strip(JoinLines(AppendedOutputs(outputs)))
        /\ abort # "none" => combined_text = <<>>

\* The spec's scenario: page 1's text, then page 2's OCR output.
C6_Witness ==
    /\ PassReturned /\ abort = "none"
    /\ pages = << <<"a">>, <<>> >>
    /\ outputs[2] = Output(2, "ocr", <<"x">>)
    /\ combined_text = <<"a", "\n", "x">>

(* -------------------------------- C7 ------------------------------------ *)

\* Every page of the document has embedded text that is not only whitespace.
TextOnlyDocument == pages # <<>> /\ BlankPages = {}

\* C7: for a document whose pages all have embedded text, no OCR key is looked
\* up, no page is rasterized, no OCR function is called and no request is sent
\* to an OCR backend, and the page count and the token counters stay 0.
C7_TextOnlyNeedsNoOcr ==
    TextOnlyDocument =>
        /\ \A j \in 1..Len(log) :
              /\ log[j].ev \notin OcrRequestEvents \cup {"ocr_call", "to_image"}
              /\ log[j].ev = "key_lookup" => log[j].page = 0
        /\ gcv_page_count = 0
        /\ usage_dict = ZeroUsage

\* A two-page document with text on both pages went through the pass.
C7_Witness ==
    /\ PassReturned /\ abort = "none"
    /\ Len(pages) = 2 /\ TextOnlyDocument
    /\ combined_text # <<>>

(* -------------------------------- C8 ------------------------------------ *)

TableEvents == {"fields_table", "details_table", "container_table",
                "text_cost_table", "image_cost_table", "combined_cost_line"}

\* C8: when the content of the extraction reply is not valid JSON, main shows
\* the error and the raw response and returns; no field table, no container
\* table and no cost table appears.
C8_InvalidJsonAborts ==
    response.shape = "invalid_json" =>
        /\ pc \in {"parse", "aborted"}
        /\ \A j \in 1..Len(log) : log[j].ev \notin TableEvents
        /\ pc = "aborted" =>
              /\ Logged("error_json", 0)
              /\ Logged("raw_response", 0)

\* A request that ended on a reply that is not JSON.
C8_Witness ==
    /\ response.shape = "invalid_json"
    /\ pc = "aborted"
    /\ Logged("raw_response", 0)

(* -------------------------------- C9 ------------------------------------ *)

\* Every event e of the log has an event of kind f before it.
Before(f, e) ==
    \A j \in 1..Len(log) :
        log[j].ev = e => \E k \in 1..(j - 1) : log[k].ev = f

PageEvents == OcrRequestEvents \cup
              {"extract_text", "info_no_text", "to_image", "ocr_call", "error_ocr", "warn_ocr"}

\* C9 (as claimed; refuted): the extracted fields are presented only after the
\* cost accounting.
C9_PresentationAfterAccounting ==
    /\ Before("combined_cost", "fields_table")
    /\ Before("combined_cost", "details_table")

\* C9 (amended): the extraction call is issued only after every page has been
\* processed, and nothing is done on a page after it; the extracted fields are
\* presented after the extraction reply is obtained and before the cost
\* accounting; the cost accounting runs after the presentation of the fields,
\* and its total is the last thing shown.
C9_StageOrder ==
    /\ \A j \in 1..Len(log) :
          log[j].ev = "extract_call" =>
              /\ i = Len(pages) /\ abort = "none"
              /\ \A n \in 1..Len(pages) : \E k \in 1..(j - 1) : log[k] = Ev("extract_text", n)
              /\ \A k \in (j + 1)..Len(log) : log[k].ev \notin PageEvents
    /\ \A n \in 1..Len(pages) : \A j \in At("extract_text", n) :
          \A m \in 1..(n - 1) : \E k \in 1..(j - 1) : log[k] = Ev("extract_text", m)
    /\ Before("extract_call", "fields_table")
    /\ Before("fields_table", "details_table")
    /\ Before("details_table", "text_cost")
    /\ Before("text_cost", "image_cost")
    /\ Before("image_cost", "combined_cost")
    /\ pc = "rendered" => log[Len(log)].ev = "combined_cost_line"

\* A rendered request whose document has a page with text and a page without.
C9_Witness ==
    /\ pc = "rendered"
    /\ Len(pages) = 2 /\ BlankPages = {2}
    /\ OcrCalls(2) = 1

(* -------------------------------- C10 ----------------------------------- *)

\* Position of a writer's load and save in xlog (0: not yet).
XPos(op, w) ==
    IF \E j \in 1..Len(xlog) : xlog[j] = [op |-> op, w |-> w]
    THEN CHOOSE j \in 1..Len(xlog) : xlog[j] = [op |-> op, w |-> w]
    ELSE 0

\* Both invocations are over, and each loaded the workbook before either saved.
Raced(u, v) ==
    /\ u # v
    /\ wpc[u] = "done" /\ wpc[v] = "done"
    /\ XPos("load", u) < XPos("save", v)
    /\ XPos("load", v) < XPos("save", u)

\* The file holds a data row appended by invocation w.
RowStored(w) ==
    /\ file.state = "valid"
    /\ \E j \in 2..Len(file.rows) : file.rows[j].by = w

\* C10: nothing locks the file.  When two invocations both load the workbook
\* before either saves, the file does not hold both their rows once both have
\* finished: an update is lost.
C10_LostUpdate ==
    \A u, v \in Writers : Raced(u, v) => ~(RowStored(u) /\ RowStored(v))

\* Two invocations raced, both finished, and the row of the first is gone.
C10_Witness ==
    /\ Raced(1, 2)
    /\ XPos("save", 1) < XPos("save", 2)
    /\ ~RowStored(1) /\ RowStored(2)

(* -------------------------------- C11 ----------------------------------- *)

\* The first k invocations are over and no later one has started.
CallsOver(k) ==
    /\ \A u \in 1..k : wpc[u] \in {"done", "raised"}
    /\ \A u \in DOMAIN wpc : u > k => wpc[u] = "idle"

\* The rows the file held before the first invocation.
HeldBefore == IF file0.state = "valid" THEN file0.rows ELSE <<>>

\* Rows in front of the data rows the invocations add: the rows held before,
\* or the header row the first invocation writes into a new workbook.
RowsInFront == IF file0.state = "valid" THEN Len(file0.rows) ELSE 1

\* C11 (as claimed; the code violates it): after k invocations made one after
\* another, whatever the file was at the start (absent, valid, not loadable),
\* the file holds the rows it held before, unchanged, and after them exactly k
\* new data rows, the j-th one appended by the j-th invocation.
C11_AppendOnly ==
    \A k \in 1..MaxCalls :
        CallsOver(k) =>
            /\ file.state = "valid"
            /\ Len(file.rows) = RowsInFront + k
            /\ SubSeq(file.rows, 1, Len(HeldBefore)) = HeldBefore
            /\ \A j \in 1..k :
                  file.rows[RowsInFront + j]
                      = Row(NewRow(file.rows[1].cells, row_data[j]), j)

(* -------------------------------- C12 ----------------------------------- *)

\* C12: starting from an absent file, once the first invocation has saved, the
\* first row of the file is the list of keys of that invocation's row_data, in
\* their order, and stays so after every later invocation, whatever its keys.
C12_HeaderFixedByFirstWrite ==
    (file0 = AbsentFile /\ wpc[1] = "done")
        => /\ file.state = "valid"
           /\ file.rows[1] = Row(Keys(row_data[1]), 1)

\* Three invocations on an absent file, the later ones with other keys than
\* the first: the header is still the first one's.
C12_Witness ==
    /\ file0 = AbsentFile
    /\ CallsOver(3)
    /\ Keys(row_data[1]) = <<"A">>
    /\ Keys(row_data[2]) = <<"B", "A">>
    /\ Keys(row_data[3]) = <<"B">>
    /\ file.rows[1].cells = <<"A">>
    /\ Len(file.rows) = 4

(* -------------------------------- C13 ----------------------------------- *)

\* C13: when the page pass hands back the empty text, main shows the warning
\* and returns; the extraction backend is called with non-empty text only.
C13_NoTextAborts ==
    /\ (PassReturned /\ combined_text = <<>> /\ pc # "check_text")
          => /\ pc = "aborted"
             /\ log[Len(log)] = Ev("warn_no_text", 0)
    /\ Logged("extract_call", 0) => combined_text # <<>>

\* A two-page document without embedded text whose OCR found nothing: every
\* page was processed, the text is empty, the request is aborted.
C13_Witness ==
    /\ pc = "aborted" /\ abort = "none"
    /\ Len(pages) = 2 /\ BlankPages = {1, 2}
    /\ OcrCalls(1) = 1 /\ OcrCalls(2) = 1
    /\ combined_text = <<>>
    /\ Logged("warn_no_text", 0)

(* -------------------------------- C14 ----------------------------------- *)

\* C14: an upload of 0 bytes is answered with the error at once and the request
\* ends: the PDF is not opened, no page is read, no OCR backend and no
\* extraction backend is called.
C14_EmptyUploadAborts ==
    file_bytes = "empty" =>
        /\ pc = "aborted"
        /\ log[Len(log)] = Ev("error_empty_upload", 0)
        /\ \A j \in 1..Len(log) :
              log[j].ev \notin CallEvents \cup {"pdf_open", "extract_text", "to_image"}

\* The request that ended on an empty upload.
C14_Witness ==
    /\ file_bytes = "empty"
    /\ pc = "aborted"
    /\ Logged("error_empty_upload", 0)

(* -------------------------------- C15 ----------------------------------- *)

\* How often an event is in the log.
Times(e, n) == Cardinality(At(e, n))

\* The messages that report a failed call on page n (0: the extraction call).
FailureMessages(n) ==
    IF n = 0 THEN { Ev("error_extract", 0) }
    ELSE { Ev("error_ocr", n), Ev("error_pdf", n) }

\* C15: in one request the extraction backend is called at most once and each
\* page's OCR function at most once, each of its requests being sent at most
\* once; after a failed call no call for the same page (for the extraction: no
\* call at all) follows, and a message reporting the failure is shown.
C15_NothingRetried ==
    /\ Times("extract_call", 0) <= 1
    /\ \A n \in 1..Len(pages) :
          \A e \in OcrRequestEvents \cup {"ocr_call"} : Times(e, n) <= 1
    /\ \A j \in 1..Len(log) :
          log[j].ev \in {"ocr_failed", "extract_failed"} =>
              /\ \E k \in (j + 1)..Len(log) : log[k] \in FailureMessages(log[j].page)
              /\ \A k \in (j + 1)..Len(log) :
                    log[k].ev \in CallEvents =>
                        (log[j].page # 0 /\ log[k].page # log[j].page)

\* The OCR call of page 1 failed, page 2 gave text, and the extraction call
\* failed as well: each was made once and each failure was reported.
C15_Witness ==
    /\ pc = "aborted"
    /\ Len(pages) = 2
    /\ Logged("ocr_failed", 1) /\ OcrCalls(1) = 1
    /\ Logged("extract_failed", 0) /\ Times("extract_call", 0) = 1
    /\ Logged("error_extract", 0)

(* -------------------------------- C16 ----------------------------------- *)

\* The counters the cost section reads.
PromptTokens == Get(response.usage, "prompt_tokens", 0)
CompletionTokens == Get(response.usage, "completion_tokens", 0)
ImagePromptTokens == Get(usage_dict, "prompt_tokens", 0)
ImageCompletionTokens == Get(usage_dict, "completion_tokens", 0)

\* C16: whatever the counters, the combined cost is the text-extraction
\* subtotal plus the image subtotal; the text subtotal is the prompt cost plus
\* the completion cost of the extraction reply's usage; the image subtotal is
\* the page count times the flat rate under Google Cloud Vision and the token
\* cost of the accumulated image usage under GPT-4.
C16_CombinedIsSumOfSubtotals ==
    pc = "rendered" =>
        /\ cost.combined_cost = cost.text_cost + cost.image_cost_cents
        /\ cost.text_cost = PromptTokens * TextPromptRate
                               + CompletionTokens * TextCompletionRate
        /\ cost.image_cost_cents =
              IF img_model = GCV
              THEN gcv_page_count * GcvPageRate
              ELSE ImagePromptTokens * ImagePromptRate
                       + ImageCompletionTokens * ImageCompletionRate

\* GPT-4 selected, tokens on both sides: 3 * 15 + 1 * 60 for the text,
\* 2 * 3000 + 1 * 6000 for the images.
C16_Witness ==
    /\ pc = "rendered" /\ img_model = GPT4
    /\ PromptTokens = 3 /\ CompletionTokens = 1
    /\ ImagePromptTokens = 2 /\ ImageCompletionTokens = 1
    /\ cost.text_cost = 105
    /\ cost.image_cost_cents = 12000
    /\ cost.combined_cost = 12105

(* -------------------------------- C17 ----------------------------------- *)

\* A usage dict with prompt_tokens doubled.
DoubledPrompt(usage) ==
    IF "prompt_tokens" \in DOMAIN usage
    THEN [usage EXCEPT !["prompt_tokens"] = 2 * @]
    ELSE usage

\* C17: computed again with prompt_tokens doubled, the prompt cost of the text
\* subtotal is twice what it was and the completion cost is what it was; the
\* same holds for the two terms of the GPT-4 image subtotal.
C17_PromptCostLinear ==
    pc = "rendered" =>
        LET twice == Costs(DoubledPrompt(response.usage), img_model, gcv_page_count,
                           DoubledPrompt(usage_dict))
        IN /\ twice.cost_prompt_cents = 2 * cost.cost_prompt_cents
           /\ twice.cost_completion_cents = cost.cost_completion_cents
           /\ twice.text_cost - cost.text_cost = cost.cost_prompt_cents
           /\ img_model = GPT4 =>
                 /\ ImagePromptCents(2 * ImagePromptTokens)
                       = 2 * ImagePromptCents(ImagePromptTokens)
                 /\ twice.image_cost_cents - cost.image_cost_cents
                       = ImagePromptCents(ImagePromptTokens)

\* A rendered request with prompt tokens on both sides.
C17_Witness ==
    /\ pc = "rendered" /\ img_model = GPT4
    /\ PromptTokens = 3 /\ ImagePromptTokens = 2
    /\ cost.cost_prompt_cents = 45

(* -------------------------------- C18 ----------------------------------- *)

RECURSIVE SumUsage(_)
\* The usage of the GPT-4 replies in a log, added up.
SumUsage(l) ==
    IF l = <<>> THEN ZeroUsage
    ELSE IF Head(l).ev = "gpt4_reply" THEN AddUsage(SumUsage(Tail(l)), Head(l).usage)
    ELSE SumUsage(Tail(l))

\* C18: in every run of a session, whatever the earlier runs returned, the
\* pass starts with empty text, zero token counters and a zero page count, and
\* what it returns is determined by this run's document, OCR choice and
\* replies: the count is the number of this document's pages sent to Google
\* Cloud Vision, the counters are the sum of the usage of this run's GPT-4
\* replies, the text is made of this document's page outputs.
C18_NoStateAcrossUploads ==
    /\ pc \in {"start", "upload", "open"} =>
          /\ full_text = <<>> /\ combined_text = <<>>
          /\ usage_dict = ZeroUsage
          /\ gcv_page_count = 0
    /\ gcv_page_count = Cardinality({ n \in 1..Len(pages) : Logged("gcv_request", n) })
    /\ usage_dict = SumUsage(log)
    /\ full_text = JoinLines(AppendedOutputs(outputs))
    /\ PassReturned =>
          combined_text = IF abort = "none" THEN Strip(full_text) ELSE <<>>

\* A run that follows one which returned tokens of GPT-4: under Google Cloud
\* Vision now, its pass returns text, no tokens and a count of 1.
C18_Witness ==
    /\ previous # <<>>
    /\ previous[1].usage /\ ~previous[1].gcv
    /\ PassReturned /\ abort = "none"
    /\ img_model = GCV
    /\ combined_text # <<>>
    /\ usage_dict = ZeroUsage
    /\ gcv_page_count = 1

(* -------------------------------- C19 ----------------------------------- *)

\* The reply's content was parsed.
Parsed == pc \in {"render", "cost", "rendered"}

MistralRequests == <<"mistral_upload", "mistral_signed_url", "mistral_ocr">>

\* The requests of call_mistral_ocr for page n come in the order upload,
\* signed URL, OCR, each at most once, and each right after the one before it:
\* no failure lies between them.
MistralInOrder(n) ==
    /\ \A s \in 1..Len(MistralRequests) : Times(MistralRequests[s], n) <= 1
    /\ \A s \in 2..Len(MistralRequests) :
          \A j \in At(MistralRequests[s], n) :
              j > 1 /\ log[j - 1] = Ev(MistralRequests[s - 1], n)

\* The call for page n returned a text to the loop (no exception left it).
OcrReturned(n) ==
    /\ ~Logged("raised_ocr", n)
    /\ \E k \in 1..Len(outputs) : outputs[k].page = n /\ outputs[k].kind = "ocr"

\* C20 (as claimed; the code violates it): call_mistral_ocr issues upload,
\* signed-URL request and OCR request in this order, each only after the one
\* before it succeeded; on the first step that fails it shows the error,
\* issues no further request and returns the empty string.
C20_MistralProtocol ==
    img_model = MISTRAL =>
        \A n \in 1..Len(pages) :
            /\ MistralInOrder(n)
            /\ \A j \in At("ocr_failed", n) :
                  /\ j < Len(log) /\ log[j + 1] = Ev("error_ocr", n)
                  /\ \A k \in (j + 1)..Len(log) :
                        ~(log[k].page = n /\ log[k].ev \in OcrRequestEvents)
                  /\ OcrReturned(n)
                  /\ \A k \in 1..Len(outputs) : outputs[k].page = n => outputs[k].text = <<>>

(* -------------------------------- C21 ----------------------------------- *)

\* The pass has just returned to main: main holds its three results.
JustReturned == PassReturned /\ pc = "check_text"

\* The page whose extract_text or to_image raised in this run, if one did.
FaultOfRun ==
    IF abort \in {"extract_text", "to_image"} THEN Fault(abort, i + 1) ELSE NoFault

\* What implementation im returns for this run's upload, OCR choice, secrets
\* and backend answers.
ResultOf(im) ==
    ExtractTextFromPdfWithImageFallback(im, img_model, secrets, file_bytes, pages,
                                        replies, FaultOfRun)

\* C21: with Google Cloud Vision or GPT-4 selected and every credential set,
\* what the pass returned (text, token counters, page count) is what either
\* implementation returns for the same pages and the same backend answers.
C21_ImplementationsAgree ==
    (JustReturned /\ img_model \in {GCV, GPT4} /\ AllSecretsSet)
        => \A im \in Impls :
              ResultOf(im) = Returned(combined_text, usage_dict, gcv_page_count)

\* pdf_processing.py served a two-page document without embedded text under
\* Google Cloud Vision, one page answered with text and one without.
C21_Witness ==
    /\ JustReturned /\ impl = "pdf_processing" /\ img_model = GCV /\ AllSecretsSet
    /\ Len(pages) = 2 /\ BlankPages = {1, 2}
    /\ Len(replies) = 2
    /\ replies[1].reply.kind = "ok" /\ replies[2].reply.kind = "none"
    /\ gcv_page_count = 2
    /\ ResultOf("app") = Returned(combined_text, usage_dict, gcv_page_count)
    /\ combined_text # <<>>

(* -------------------------------- C22 ----------------------------------- *)

\* The value the GPT-4 reply for page n reported under key k: 0 when the page
\* got no reply with a usage (no OCR call, a failed call) or the key is missing.
Reported(n, k) ==
    IF \E j \in 1..Len(log) : log[j].ev = "gpt4_reply" /\ log[j].page = n
    THEN Get(log[CHOOSE j \in 1..Len(log) :
                    log[j].ev = "gpt4_reply" /\ log[j].page = n].usage, k, 0)
    ELSE 0

RECURSIVE ReportedUpTo(_, _)
\* The values reported under key k for pages 1..m, added up.
ReportedUpTo(m, k) == IF m = 0 THEN 0 ELSE ReportedUpTo(m - 1, k) + Reported(m, k)

\* Pages 1..m submitted to Google Cloud Vision.
GcvPagesUpTo(m) == { n \in 1..m : Logged("gcv_request", n) }

\* An exception escaped while a page was processed.
ExceptionEscaped == abort \in {"extract_text", "to_image", "ocr_exception"}

\* C22: when an exception escapes while page k = i + 1 is processed, the pass
\* returns the empty text although pages 1..k-1 were processed and their text
\* collected, and the counters and the page count it returns are those
\* accumulated for pages 1..k-1.
C22_ExceptionKeepsCounters ==
    (PassReturned /\ ExceptionEscaped) =>
        /\ i < Len(pages) /\ Len(outputs) = i
        /\ \E e \in {"raised_extract_text", "raised_to_image", "raised_ocr"} :
              Logged(e, i + 1)
        /\ combined_text = <<>>
        /\ \A k \in UsageKeys : usage_dict[k] = ReportedUpTo(i, k)
        /\ gcv_page_count = Cardinality(GcvPagesUpTo(i))

\* GPT-4 read page 1 and reported tokens; extract_text raised on page 2: the
\* text of page 1 is gone, its tokens are returned.
C22_Witness ==
    /\ PassReturned /\ abort = "extract_text" /\ img_model = GPT4
    /\ Len(pages) = 2 /\ i = 1
    /\ full_text # <<>> /\ combined_text = <<>>
    /\ usage_dict["prompt_tokens"] = 2 /\ usage_dict["total_tokens"] = 3

(* -------------------------------- C23 ----------------------------------- *)

\* The pages for which the selected backend's OCR function was called.
OcrProcessedPages == { n \in 1..Len(pages) : OcrCalls(n) = 1 }

RECURSIVE SumReported(_, _)
\* The values reported under key k for the pages of S, added up.
SumReported(S, k) ==
    IF S = {} THEN 0
    ELSE LET n == CHOOSE m \in S : TRUE IN Reported(n, k) + SumReported(S \ {n}, k)

\* C23: under GPT-4 each counter the pass returns is the sum, over the pages
\* given to OCR, of the value the page's reply reported for it; a page whose
\* call failed, a page skipped for a missing credential and a key missing in
\* the reply's usage add 0.  Under any other choice the three counters are 0.
\* The page count is 0 unless Google Cloud Vision is selected.
C23_CountersAreSums ==
    PassReturned =>
        /\ img_model = GPT4 =>
              /\ \A k \in UsageKeys : usage_dict[k] = SumReported(OcrProcessedPages, k)
              /\ \A n \in 1..Len(pages) :
                    (Logged("ocr_failed", n) \/ n \notin OcrProcessedPages)
                        => \A k \in UsageKeys : Reported(n, k) = 0
        /\ img_model # GPT4 => usage_dict = ZeroUsage
        /\ gcv_page_count # 0 => img_model = GCV

\* Both pages of a document read by GPT-4, each reply reporting 2 + 1 = 3
\* tokens: the pass returns 4, 2 and 6.
C23_Witness ==
    /\ PassReturned /\ abort = "none" /\ img_model = GPT4
    /\ OcrProcessedPages = {1, 2}
    /\ Reported(1, "prompt_tokens") = 2 /\ Reported(2, "prompt_tokens") = 2
    /\ usage_dict = [k \in UsageKeys |-> 2 * Reported(1, k)]
    /\ usage_dict["total_tokens"] = 6
    /\ gcv_page_count = 0

(* -------------------------------- C24 ----------------------------------- *)

\* The elements of a sequence.
Range(q) == { q[j] : j \in 1..Len(q) }

\* The keys of a row_data, and the value it has for one of them.
KeySet(d) == { d[j][1] : j \in 1..Len(d) }

ValueOf(d, k) == d[CHOOSE j \in 1..Len(d) : d[j][1] = k][2]

\* C24: every row of the file that an invocation appended has one cell per
\* column of the header; the cell under a column holds the value row_data has
\* for that column, or "" when row_data has no such key; the value of a key
\* that is no column of the header is nowhere in the row.
C24_RowOrderedByHeader ==
    file.state = "valid" =>
        LET header == file.rows[1].cells IN
        \A r \in 2..Len(file.rows) :
            LET row == file.rows[r] IN
            row.by # 0 =>
                LET d == row_data[row.by] IN
                /\ Len(row.cells) = Len(header)
                /\ \A j \in 1..Len(header) :
                      row.cells[j] = IF header[j] \in KeySet(d) THEN ValueOf(d, header[j])
                                     ELSE ""
                /\ \A k \in KeySet(d) \ Range(header) :
                      ValueOf(d, k) \notin Range(row.cells)

\* A file with the one column A; a call with the keys B, A and a call with
\* the key B alone: the first row holds A's value only, the second "".
C24_Witness ==
    /\ file0 = ValidFile(<< Row(<<"A">>, 0) >>)
    /\ CallsOver(2)
    /\ Keys(row_data[1]) = <<"B", "A">>
    /\ Keys(row_data[2]) = <<"B">>
    /\ file.rows = << Row(<<"A">>, 0), Row(<<"A1">>, 1), Row(<<"">>, 2) >>

(* -------------------------------- C25 ----------------------------------- *)

\* A file has been uploaded: the request is an upload request.
Uploaded == file_bytes # "none"

\* No page has more than one OCR call, and there is at most one extraction call.
CallsBounded ==
    /\ \A n \in 1..Len(pages) : OcrCalls(n) <= 1
    /\ Cardinality({ j \in 1..Len(log) : log[j].ev = "ocr_call" }) <= Len(pages)
    /\ Times("extract_call", 0) <= 1

\* C25 (as claimed; the code violates it): when every call returns, an upload
\* request ends rendered or aborted, and until then no page gets more than one
\* OCR call and the extraction backend at most one call.
C25_EndsRenderedOrAborted ==
    /\ Uploaded ~> (pc \in {"rendered", "aborted"})
    /\ []CallsBounded

====
